---- MODULE Spec2Model ----
(***************************************************************************)
(* Block synchronisation: one peer session (p2p/src/sync/peer.rs) under    *)
(* the sync manager's peer map (p2p/src/sync/mod.rs), against a small      *)
(* chainstate.  A block header is identified with the id of its block;     *)
(* Prev gives its prev_block_id.                                           *)
(*                                                                         *)
(* Spec is the session with a peer that may send anything; SyncSpec is the *)
(* session with a cooperative peer, StallSpec the same under a fair        *)
(* scheduler; MgrSpec is the loop of the sync manager with the session     *)
(* tasks it spawns; CodecSpec is the syncing codec reading one frame.      *)
(***************************************************************************)
EXTENDS Integers, Sequences, FiniteSets, TLC

(* ------------------------------ bounds -------------------------------- *)
\* Blocks 1..MainLen form a line on top of genesis (block 0).
MainLen == 2
\* P2pConfig values, scaled down.
MaxRequestBlocksCount == 1
MsgHeaderCountLimit == 2
MsgMaxLocatorCount == 1
\* Events a channel out of the sync manager holds at most.
MaxInFlight == 2
\* MESSAGE_MAX_SIZE (10 MiB), in bytes, scaled down.
MessageMaxSize == 3
\* The values one group of a varint length takes (2^7), scaled down.
VarintGroup == 4
\* max_request_blocks_count of the node that serves blocks.
ServeMaxRequestBlocksCount == 2

(* --------------------------- block universe --------------------------- *)
Genesis == 0
\* A valid block on a side branch: its parent is block 1.
ForkBlock == MainLen + 1
\* A block whose header fails chainstate's checks; its parent is block 1.
BadBlock == MainLen + 2
Blocks == 1..(MainLen + 2)

Prev(b) ==
    IF b \in {ForkBlock, BadBlock} THEN 1 ELSE b - 1

RECURSIVE Height(_)
Height(b) == IF b = Genesis THEN 0 ELSE 1 + Height(Prev(b))

RECURSIVE Ancestors(_)
\* b and every block below it, genesis included.
Ancestors(b) == IF b = Genesis THEN {Genesis} ELSE {b} \cup Ancestors(Prev(b))

SessionPeer == "peer1"

\* The peer ids the sync manager can be told of.
PeerIds == {"peer1", "peer2"}

VARIABLES
    peers,              \* BlockSyncManager::peers (the ids in the map)
    status,             \* where the session's task is
    known_headers,      \* Peer::known_headers
    requested_blocks,   \* Peer::requested_blocks
    blocks_queue,       \* Peer::blocks_queue
    best_known_block,   \* Peer::best_known_block: {} is None, {h} is Some(h)
    ibd,                \* Peer::is_initial_block_download
    chain,              \* blocks the chainstate holds (genesis apart)
    tip,                \* best block of the chainstate
    score_event,        \* the AdjustPeerScore sent and not yet acknowledged
    exit_error,         \* the error Peer::run returned, "" while it runs
    asked,              \* history: ids sent in a BlockListRequest by this
                        \* session and not received in a BlockResponse since
    \* a cooperative remote peer and the connection to it
    peer_chain,         \* the headers of the remote peer's chain, in order
    peer_asked,         \* the remote peer has sent its own HeaderListRequest
    to_peer,            \* requests of the session the peer has not answered
    inbox,              \* messages of the peer the session has not handled
    log,                \* history: requests sent and blocks received
    \* BlockSyncManager and what it talks to
    mgr_exit,           \* how BlockSyncManager::run ended, "" while it runs
    tasks,              \* per peer id, the session tasks spawned and not
                        \* aborted, oldest first: "running" or "ended"
    local_events,       \* per peer id, the LocalEvents sent to the session
                        \* in the map and not yet taken by it
    pm_channel,         \* PeerManagerEvents sent and not yet taken
    pm_open,            \* the peer manager's receiver is alive
    \* the syncing codec over one socket
    wire,               \* the bytes in the socket, not yet read
    framed,             \* history: the payload written into the socket
    decoded,            \* what the codec's last read returned
    \* serving blocks to the peer
    max_request_blocks_count,   \* P2pConfig::max_request_blocks_count
    served              \* history: per block id, the BlockResponses sent with
                        \* it, counted up to two

vars == <<peers, status, known_headers, requested_blocks, blocks_queue,
          best_known_block, ibd, chain, tip, score_event, exit_error, asked,
          peer_chain, peer_asked, to_peer, inbox, log,
          mgr_exit, tasks, local_events, pm_channel, pm_open,
          wire, framed, decoded, max_request_blocks_count, served>>

session_vars == <<peers, status, known_headers, requested_blocks, blocks_queue,
                  best_known_block, ibd, chain, tip, score_event, exit_error, asked>>

sync_vars == <<peer_chain, peer_asked, to_peer, inbox, log>>

mgr_vars == <<mgr_exit, tasks, local_events, pm_channel, pm_open>>

codec_vars == <<wire, framed, decoded>>

serve_vars == <<max_request_blocks_count, served>>

(* ------------------------------ helpers ------------------------------- *)
Range(s) == {s[i] : i \in 1..Len(s)}

SeqsUpTo(S, n) == UNION {[1..k -> S] : k \in 0..n}

Take(s, n) == SubSeq(s, 1, IF Len(s) < n THEN Len(s) ELSE n)

Drop(s, n) == SubSeq(s, n + 1, Len(s))

\* The subsets of S as sequences in increasing order.
RECURSIVE SetToSeq(_)
SetToSeq(S) ==
    IF S = {} THEN <<>>
    ELSE LET m == CHOOSE x \in S : \A y \in S : x <= y
         IN  <<m>> \o SetToSeq(S \ {m})

Unwrap(opt, default) == IF opt = {} THEN default ELSE CHOOSE h \in opt : TRUE

\* Option<BlockHeight> ordering: None is below every Some.
OptLeq(a, b) == a = {} \/ (b # {} /\ Unwrap(a, 0) <= Unwrap(b, 0))

(* ----------------------------- chainstate ----------------------------- *)
\* get_gen_block_index: genesis or a stored block.
GenBlockKnown(id) == id = Genesis \/ id \in chain

\* get_block_index: a stored block.
BlockKnown(id) == id \in chain

\* get_block_height_in_main_chain: Some(height) on the main chain, else None.
MainChainHeight(id) == IF id \in Ancestors(tip) THEN {Height(id)} ELSE {}

\* The chain after process_block stores b: the tip moves to a higher block.
TipAfter(b) == IF Height(b) > Height(tip) THEN b ELSE tip

\* get_locator: the tip first, then back to genesis, at most
\* msg_max_locator_count ids.
GetLocator(tp) == Take(IF tp = Genesis THEN <<Genesis>> ELSE <<tp, Genesis>>, MsgMaxLocatorCount)

\* get_headers: the main chain above the first locator id that is on it,
\* at most `limit` headers.
GetHeaders(locator, limit) ==
    LET onMain == {i \in 1..Len(locator) : locator[i] \in Ancestors(tip)}
        base == IF onMain = {} THEN Genesis
                ELSE locator[CHOOSE i \in onMain : \A j \in onMain : i <= j]
        above == {b \in Ancestors(tip) : Height(b) > Height(base)}
    IN  Take(SetToSeq(above), limit)

\* filter_already_existing_blocks: the headers whose block is not stored.
FilterAlreadyExistingBlocks(headers) ==
    SelectSeq(headers, LAMBDA h : ~BlockKnown(h))

\* preliminary_header_check / the header part of preliminary_block_check.
HeaderCheckOk(h) == h # BadBlock

(* ------------------------------- faults ------------------------------- *)
\* What can go wrong in a collaborator during one handler: the chainstate
\* (or mempool) subsystem call fails, or send_message fails.
Faults == {"none", "SubsystemFailure", "PeerDoesntExist", "ChannelClosed"}

\* The faults of a handler that sends no message.
CallFaults == {"none", "SubsystemFailure"}

CallFault(f) == f = "SubsystemFailure"

SendFault(f) == f \in {"PeerDoesntExist", "ChannelClosed"}

(* ------------------------------ messages ------------------------------ *)
HeaderListRequest(locator) == [type |-> "HeaderListRequest", locator |-> locator]

HeaderListResponse(headers) == [type |-> "HeaderListResponse", headers |-> headers]

BlockListRequest(ids) == [type |-> "BlockListRequest", ids |-> ids]

BlockResponse(id) == [type |-> "BlockResponse", block |-> id]

\* MessagingService::send_message: what goes out, and the result.
SendMessage(msg, f) ==
    IF SendFault(f) THEN [res |-> f, sent |-> <<>>]
    ELSE [res |-> "Ok", sent |-> <<msg>>]

(* ------------------------- the session's steps ------------------------ *)
\* The result of a handler: res is "Ok" or the error; kh, rb, bq, bk, ch, tp
\* are known_headers, requested_blocks, blocks_queue, best_known_block, chain
\* and tip after it; sent the messages it sent; calls the chainstate and
\* mempool functions it called; af whether request_blocks' debug assertion
\* failed; recv the ids of the blocks the event delivered.
Outcome(res, kh, rb, sent, calls) ==
    [res |-> res, kh |-> kh, rb |-> rb, bq |-> blocks_queue,
     bk |-> best_known_block, ch |-> chain, tp |-> tip,
     sent |-> sent, calls |-> calls, af |-> FALSE, recv |-> {}]

\* Mutant: a handler that returns early forgets the blocks requested.
Same_forgetsRequested(res, calls) == Outcome(res, known_headers, {}, <<>>, calls)

Same(res, calls) == Outcome(res, known_headers, requested_blocks, <<>>, calls)

\* Peer::request_headers, with the chainstate's tip at tp.
RequestHeaders(tp, f) ==
    IF CallFault(f) THEN [res |-> f, sent |-> <<>>]
    ELSE SendMessage(HeaderListRequest(GetLocator(tp)), f)

\* Mutant: every new header is requested at once, whatever
\* max_request_blocks_count is.
RequestBlocks_unbatched(kh, rb, hdrs, f) ==
    LET headers == SelectSeq(hdrs, LAMBDA h : h \notin rb)
        snd == SendMessage(BlockListRequest(headers), f)
    IN  IF headers = <<>> THEN [res |-> "Ok", kh |-> kh, rb |-> rb, sent |-> <<>>, af |-> kh # <<>>]
        ELSE IF snd.res # "Ok" THEN [res |-> snd.res, kh |-> kh, rb |-> rb, sent |-> <<>>, af |-> kh # <<>>]
        ELSE [res |-> "Ok", kh |-> kh, rb |-> rb \cup Range(headers),
              sent |-> snd.sent, af |-> kh # <<>>]

\* Peer::request_blocks, entered with known_headers = kh and
\* requested_blocks = rb.
RequestBlocks(kh, rb, hdrs, f) ==
    LET headers == SelectSeq(hdrs, LAMBDA h : h \notin rb)
        kh1 == IF Len(headers) > max_request_blocks_count
               THEN Drop(headers, max_request_blocks_count) ELSE kh
        block_ids == Take(headers, max_request_blocks_count)
        snd == SendMessage(BlockListRequest(block_ids), f)
    IN  IF headers = <<>> THEN [res |-> "Ok", kh |-> kh, rb |-> rb, sent |-> <<>>, af |-> kh # <<>>]
        ELSE IF snd.res # "Ok" THEN [res |-> snd.res, kh |-> kh1, rb |-> rb, sent |-> <<>>, af |-> kh # <<>>]
        ELSE [res |-> "Ok", kh |-> kh1, rb |-> rb \cup Range(block_ids),
              sent |-> snd.sent, af |-> kh # <<>>]

AfterRequestBlocks(r, calls) ==
    [Outcome(r.res, r.kh, r.rb, r.sent, calls) EXCEPT !.af = r.af]

\* Mutant: the initial block download flag is never seen set.
IsInitialBlockDownload_never == FALSE

\* is_initial_block_download.load()
IsInitialBlockDownload == ibd

\* Mutant: a locator of exactly msg_max_locator_count ids is refused.
LocatorSizeExceeded_offByOne(locator) == Len(locator) >= MsgMaxLocatorCount

\* Mutant: no locator is too long.
LocatorSizeExceeded_never(locator) == FALSE

\* handle_header_request: the locator is longer than msg_max_locator_count.
LocatorSizeExceeded(locator) == Len(locator) > MsgMaxLocatorCount

\* Peer::handle_header_request
HandleHeaderRequest(locator, f) ==
    IF LocatorSizeExceeded(locator) THEN Same("LocatorSizeExceeded", {})
    ELSE IF IsInitialBlockDownload THEN Same("Ok", {})
    ELSE IF CallFault(f) THEN Same(f, {"get_headers"})
    ELSE LET snd == SendMessage(HeaderListResponse(GetHeaders(locator, MsgHeaderCountLimit)), f)
         IN  Outcome(snd.res, known_headers, requested_blocks, snd.sent, {"get_headers"})

\* Mutant: only the first id of a request is checked.
CheckRequestedIds_firstOnly(ids, best) ==
    IF ids = <<>> THEN "Ok"
    ELSE IF ~BlockKnown(Head(ids)) THEN "UnknownBlockRequested"
    ELSE IF Height(Head(ids)) <= best THEN "DuplicatedBlockRequest"
    ELSE "Ok"

\* The check of a block list request against the chainstate, id by id.
RECURSIVE CheckRequestedIds(_, _)
CheckRequestedIds(ids, best) ==
    IF ids = <<>> THEN "Ok"
    ELSE IF ~BlockKnown(Head(ids)) THEN "UnknownBlockRequested"
    ELSE IF Height(Head(ids)) <= best THEN "DuplicatedBlockRequest"
    ELSE CheckRequestedIds(Tail(ids), best)

\* Mutant: a request that fills the queue exactly to the limit is refused.
BlocksLimitExceeded_offByOne(n, queued) ==
    max_request_blocks_count <= n \/ max_request_blocks_count - n <= queued

\* Mutant: the ids already queued are not counted.
BlocksLimitExceeded_ignoresQueue(n, queued) == max_request_blocks_count < n

\* handle_block_request: max_request_blocks_count.checked_sub(n) and then
\* checked_sub(queued) gives None.
BlocksLimitExceeded(n, queued) ==
    max_request_blocks_count < n \/ max_request_blocks_count - n < queued

\* Peer::handle_block_request
HandleBlockRequest(block_ids, f) ==
    IF block_ids = <<>> THEN Same("ZeroBlocksInRequest", {})
    ELSE IF IsInitialBlockDownload THEN Same("Ok", {})
    ELSE IF BlocksLimitExceeded(Len(block_ids), Len(blocks_queue))
         THEN Same("BlocksRequestLimitExceeded", {})
    ELSE IF CallFault(f) THEN Same(f, {"get_block_index"})
    ELSE LET chk == CheckRequestedIds(block_ids, Unwrap(best_known_block, 0))
         IN  IF chk # "Ok" THEN Same(chk, {"get_block_index"})
             ELSE [Same("Ok", {"get_block_index"}) EXCEPT !.bq = blocks_queue \o block_ids]

\* Mutant: the last pair of headers is not compared.
HeadersConnected_skipsLastPair(headers) ==
    \A i \in 1..(Len(headers) - 2) : headers[i] = Prev(headers[i + 1])

\* Each header is connected to the one before it.
HeadersConnected(headers) ==
    \A i \in 1..(Len(headers) - 1) : headers[i] = Prev(headers[i + 1])

\* Mutant: held headers are not looked at.
HaveKnownHeaders_never == FALSE

\* Mutant: the check looks at requested_blocks instead of known_headers.
HaveKnownHeaders_wrongField == requested_blocks # {}

\* handle_header_response: headers of an earlier response are still held.
HaveKnownHeaders == known_headers # <<>>

\* Mutant: every response counts as a full one.
IsMaxHeaders_always(headers) == TRUE

\* handle_header_response: is_max_headers.
IsMaxHeaders(headers) == Len(headers) = MsgHeaderCountLimit

\* Peer::handle_header_response
HandleHeaderResponse(headers, f) ==
    IF HaveKnownHeaders THEN Same("UnexpectedMessage:headers response", {})
    ELSE IF Len(headers) > MsgHeaderCountLimit THEN Same("HeadersLimitExceeded", {})
    ELSE IF headers = <<>> THEN Same("Ok", {})
    ELSE IF ~HeadersConnected(headers) THEN Same("DisconnectedHeaders", {})
    ELSE IF CallFault(f) THEN Same(f, {"get_gen_block_index"})
    ELSE IF ~GenBlockKnown(Prev(headers[1]))
         THEN Same("DisconnectedHeaders", {"get_gen_block_index"})
    ELSE LET is_max_headers == IsMaxHeaders(headers)
             new == FilterAlreadyExistingBlocks(headers)
             c1 == {"get_gen_block_index", "filter_already_existing_blocks"}
             c2 == c1 \cup {"preliminary_header_check"}
         IN  IF new = <<>>
             THEN IF is_max_headers
                  THEN LET rh == RequestHeaders(tip, f)
                       IN  Outcome(rh.res, known_headers, requested_blocks, rh.sent,
                                   c1 \cup {"get_locator"})
                  ELSE Same("Ok", c1)
             ELSE IF ~HeaderCheckOk(new[1]) THEN Same("CheckBlockFailed", c2)
             ELSE AfterRequestBlocks(RequestBlocks(known_headers, requested_blocks, new, f), c2)

\* Mutant: every delivered block counts as requested.
IsRequested_any(id) == TRUE

\* handle_block_response: requested_blocks.take(id) finds the id.
IsRequested(id) == id \in requested_blocks

\* Peer::handle_block_response after the id was taken out of
\* requested_blocks.
HandleRequestedBlock(id, body_ok, f) ==
    LET rb1 == requested_blocks \ {id}
        c1 == {"preliminary_block_check"}
        c2 == c1 \cup {"process_block"}
    IN  IF CallFault(f) THEN Outcome(f, known_headers, rb1, <<>>, c1)
        ELSE IF ~(body_ok /\ HeaderCheckOk(id))
             THEN Outcome("CheckBlockFailed", known_headers, rb1, <<>>, c1)
        \* process_block on a block whose parent is not stored: an orphan
        ELSE IF ~BlockKnown(id) /\ ~GenBlockKnown(Prev(id))
             THEN Outcome("ChainstateError", known_headers, rb1, <<>>, c2)
        ELSE
        LET ch1 == chain \cup {id}
            tp1 == IF BlockKnown(id) THEN tip ELSE TipAfter(id)
            follow ==
                IF rb1 # {} THEN Outcome("Ok", known_headers, rb1, <<>>, c2)
                ELSE IF known_headers = <<>>
                THEN LET rh == RequestHeaders(tp1, f)
                     IN  Outcome(rh.res, known_headers, rb1, rh.sent,
                                 c2 \cup {"get_locator"})
                ELSE AfterRequestBlocks(RequestBlocks(<<>>, rb1, known_headers, f), c2)
        IN  [follow EXCEPT !.ch = ch1, !.tp = tp1]

\* Peer::handle_block_response: the peer delivers block `id`; body_ok says
\* whether the body it comes with passes the chainstate's block checks.
HandleBlockResponse(id, body_ok, f) ==
    IF ~IsRequested(id) THEN [Same("UnexpectedMessage:block response", {}) EXCEPT !.recv = {id}]
    ELSE [HandleRequestedBlock(id, body_ok, f) EXCEPT !.recv = {id}]

\* Peer::handle_block_announcement
HandleBlockAnnouncement(header, f) ==
    IF requested_blocks # {} THEN Same("Ok", {})
    ELSE IF CallFault(f) THEN Same(f, {"get_block_index"})
    ELSE IF BlockKnown(header) THEN Same("Ok", {"get_block_index"})
    ELSE IF ~GenBlockKnown(Prev(header))
         THEN LET rh == RequestHeaders(tip, f)
              IN  Outcome(rh.res, known_headers, requested_blocks, rh.sent,
                          {"get_block_index", "get_gen_block_index", "get_locator"})
    ELSE LET c == {"get_block_index", "get_gen_block_index", "preliminary_header_check"}
         IN  IF ~HeaderCheckOk(header) THEN Same("CheckBlockFailed", c)
             ELSE AfterRequestBlocks(
                      RequestBlocks(known_headers, requested_blocks, <<header>>, f), c)

\* What Mempool::add_transaction can answer.
MempoolResults == {"Ok", "MempoolFull", "TransactionAlreadyInMempool",
                   "TxValidationError", "MempoolError"}

\* Peer::handle_transaction_announcement: mres is the mempool's answer.
HandleTransactionAnnouncement(mres, f) ==
    IF f = "SubsystemFailure" THEN Same(f, {"add_transaction"})
    ELSE Same(mres, {"add_transaction"})

\* Peer::send_block, for the id popped from the front of blocks_queue.
SendBlock(id, f) ==
    LET c == {"get_block_height_in_main_chain", "get_block"}
        popped == [Same("Ok", c) EXCEPT !.bq = Tail(blocks_queue)]
    IN  IF CallFault(f) THEN [popped EXCEPT !.res = f]
        ELSE LET snd == SendMessage(BlockResponse(id), f)
             IN  [popped EXCEPT !.res = snd.res, !.sent = snd.sent,
                                !.bk = MainChainHeight(id)]

(* ---------------------------- handle_result --------------------------- *)
ProtocolErrors == {"LocatorSizeExceeded", "HeadersLimitExceeded", "DisconnectedHeaders",
                   "ZeroBlocksInRequest", "BlocksRequestLimitExceeded",
                   "UnknownBlockRequested", "DuplicatedBlockRequest",
                   "UnexpectedMessage:headers response", "UnexpectedMessage:block response"}

\* Mutant: a failed block check is not among the scored errors.
Classify_checkBlockFatal(res) ==
    IF res = "Ok" THEN "ok"
    ELSE IF res \in {"PeerDoesntExist", "MempoolFull", "TransactionAlreadyInMempool"} THEN "ignored"
    ELSE IF res \in ProtocolErrors \cup {"TxValidationError"} THEN "scored"
    ELSE "fatal"

\* Mutant: a message sent to a peer that is gone ends the session.
Classify_peerGoneFatal(res) ==
    IF res = "Ok" THEN "ok"
    ELSE IF res \in {"MempoolFull", "TransactionAlreadyInMempool"} THEN "ignored"
    ELSE IF res \in ProtocolErrors \cup {"TxValidationError", "CheckBlockFailed"} THEN "scored"
    ELSE "fatal"

\* Peer::handle_result: what becomes of a handler's result.
Classify(res) ==
    IF res = "Ok" THEN "ok"
    ELSE IF res = "PeerDoesntExist" THEN "ignored"
    ELSE IF res \in {"MempoolFull", "TransactionAlreadyInMempool"} THEN "ignored"
    ELSE IF res \in ProtocolErrors \cup {"TxValidationError", "CheckBlockFailed"} THEN "scored"
    ELSE "fatal"

(* ------------------------------- inputs ------------------------------- *)
\* Header lists a peer sends: increasing runs of blocks, up to one more than
\* the limit; connected and disconnected ones, known and unknown roots.
HeaderLists == {SetToSeq(S) : S \in {T \in SUBSET Blocks : Cardinality(T) <= MsgHeaderCountLimit + 1}}

\* Block id lists a peer asks for: every list within the limit, and one
\* that is one id too long.
BlockIdLists == SeqsUpTo(Blocks, max_request_blocks_count)
                    \cup {[i \in 1..(max_request_blocks_count + 1) |-> 1]}

\* Locators a peer sends: every one within the limit, and one that is one
\* id too long.
Locators == SeqsUpTo({Genesis} \cup Blocks, MsgMaxLocatorCount)
                \cup {[i \in 1..(MsgMaxLocatorCount + 1) |-> Genesis]}

\* The common_services a connection can be registered with.
ServiceSets == SUBSET {"BlockRelay", "TransactionRelay"}

\* The acknowledgement of AdjustPeerScore by the peer manager.
AckResults == {"Ok", "PeerDoesntExist"}

(* ------------------------------- actions ------------------------------ *)
\* Peer::new: the fields of a fresh session; also what is left when the
\* task has ended and the Peer is dropped.
FreshSession ==
    /\ known_headers' = <<>>
    /\ requested_blocks' = {}
    /\ blocks_queue' = <<>>
    /\ best_known_block' = {}
    /\ asked' = {}

\* The ids of the BlockListRequests among the messages sent.
RequestedIn(sent) ==
    UNION {Range(sent[i].ids) : i \in {k \in 1..Len(sent) : sent[k].type = "BlockListRequest"}}

Continue(o) ==
    /\ known_headers' = o.kh
    /\ requested_blocks' = o.rb
    /\ blocks_queue' = o.bq
    /\ best_known_block' = o.bk
    /\ asked' = (asked \ o.recv) \cup RequestedIn(o.sent)

\* PeerManagerEvent::AdjustPeerScore(peer_id, ban_score): the score is kept
\* as the error it is the ban score of.
AdjustPeerScore(res) == [peer |-> SessionPeer, score |-> res]

\* Mutant: the score adjustment is sent twice.
ScoreEvents_twice(res) ==
    IF Classify(res) = "scored" THEN <<AdjustPeerScore(res), AdjustPeerScore(res)>> ELSE <<>>

\* The AdjustPeerScore events handle_result sends for a handler's result.
ScoreEvents(res) == IF Classify(res) = "scored" THEN <<AdjustPeerScore(res)>> ELSE <<>>

\* Mutant: a fatal error is swallowed and the loop goes on.
StatusAfter_fatalGoesOn(res) ==
    IF Classify(res) = "scored" THEN "awaiting_ack" ELSE "running"

\* The task's place after handle_result: it waits for the acknowledgement of
\* a score adjustment, ends on a fatal error, and else goes round the loop.
StatusAfter(res) ==
    IF Classify(res) = "scored" THEN "awaiting_ack"
    ELSE IF Classify(res) = "fatal" THEN "terminated"
    ELSE "running"

\* One pass of the loop of Peer::run for an event: the handler's outcome o,
\* then handle_result.  In a debug build a failed debug assertion of
\* request_blocks ends the task in a panic.
Handled(o) ==
    /\ chain' = o.ch
    /\ tip' = o.tp
    /\ UNCHANGED <<peers, ibd>>
    /\ \E debug \in IF o.af THEN BOOLEAN ELSE {FALSE} :
         IF debug
         THEN /\ status' = "panicked"
              /\ FreshSession
              /\ score_event' = <<>>
              /\ exit_error' = "panic"
         ELSE /\ status' = StatusAfter(o.res)
              /\ score_event' = ScoreEvents(o.res)
              /\ IF StatusAfter(o.res) = "terminated"
                 THEN exit_error' = o.res /\ FreshSession
                 ELSE exit_error' = "" /\ Continue(o)

\* A step of Peer::run outside handle_event: every error ends the task.
Unhandled(o) ==
    /\ chain' = o.ch
    /\ tip' = o.tp
    /\ score_event' = <<>>
    /\ UNCHANGED <<peers, ibd>>
    /\ IF o.res # "Ok"
       THEN status' = "terminated" /\ exit_error' = o.res /\ FreshSession
       ELSE status' = "running" /\ exit_error' = "" /\ Continue(o)

\* BlockSyncManager::handle_peer_event, Connected: register_peer.
Connected ==
    /\ SessionPeer \notin peers
    /\ peers' = peers \cup {SessionPeer}
    /\ status' = "spawned"
    /\ FreshSession
    /\ score_event' = <<>>
    /\ exit_error' = ""
    /\ UNCHANGED <<ibd, chain, tip, sync_vars, mgr_vars, codec_vars, serve_vars>>

\* BlockSyncManager::handle_peer_event, Disconnected: unregister_peer aborts
\* the task.
Disconnected ==
    /\ SessionPeer \in peers
    /\ peers' = peers \ {SessionPeer}
    /\ status' = "none"
    /\ FreshSession
    /\ score_event' = <<>>
    /\ exit_error' = ""
    /\ UNCHANGED <<ibd, chain, tip, sync_vars, mgr_vars, codec_vars, serve_vars>>

\* Peer::run, before the loop: request_headers.
StartOutcome(f) ==
    LET rh == RequestHeaders(tip, f)
    IN  Outcome(rh.res, known_headers, requested_blocks, rh.sent, {"get_locator"})

Start ==
    /\ status = "spawned"
    /\ \E f \in Faults : Unhandled(StartOutcome(f))
    /\ UNCHANGED <<sync_vars, mgr_vars, codec_vars, serve_vars>>

\* The outcomes of every message and announcement the session can be handed
\* in this state, by kind.
HeaderRequestOutcomes ==
    {HandleHeaderRequest(locator, f) : locator \in Locators, f \in Faults}

BlockRequestOutcomes ==
    {HandleBlockRequest(ids, f) : ids \in BlockIdLists, f \in CallFaults}

HeaderResponseOutcomes ==
    {HandleHeaderResponse(headers, f) : headers \in HeaderLists, f \in Faults}

BlockResponseOutcomes ==
    {HandleBlockResponse(id, body_ok, f) : id \in Blocks, body_ok \in BOOLEAN, f \in Faults}

BlockAnnouncementOutcomes ==
    {HandleBlockAnnouncement(header, f) : header \in Blocks, f \in Faults}

TransactionAnnouncementOutcomes ==
    {HandleTransactionAnnouncement(mres, f) : mres \in MempoolResults, f \in CallFaults}

RecvHeaderListRequest ==
    /\ status = "running"
    /\ \E o \in HeaderRequestOutcomes : Handled(o)
    /\ UNCHANGED <<sync_vars, mgr_vars, codec_vars, serve_vars>>

RecvBlockListRequest ==
    /\ status = "running"
    /\ \E o \in BlockRequestOutcomes : Handled(o)
    /\ UNCHANGED <<sync_vars, mgr_vars, codec_vars, serve_vars>>

RecvHeaderListResponse ==
    /\ status = "running"
    /\ \E o \in HeaderResponseOutcomes : Handled(o)
    /\ UNCHANGED <<sync_vars, mgr_vars, codec_vars, serve_vars>>

RecvBlockResponse ==
    /\ status = "running"
    /\ \E o \in BlockResponseOutcomes : Handled(o)
    /\ UNCHANGED <<sync_vars, mgr_vars, codec_vars, serve_vars>>

RecvBlockAnnouncement ==
    /\ status = "running"
    /\ \E o \in BlockAnnouncementOutcomes : Handled(o)
    /\ UNCHANGED <<sync_vars, mgr_vars, codec_vars, serve_vars>>

RecvTransactionAnnouncement ==
    /\ status = "running"
    /\ \E o \in TransactionAnnouncementOutcomes : Handled(o)
    /\ UNCHANGED <<sync_vars, mgr_vars, codec_vars, serve_vars>>

\* Peer::run, second branch of the select: the front of blocks_queue.
ServeBlock ==
    /\ status = "running"
    /\ blocks_queue # <<>>
    /\ \E f \in Faults : Unhandled(SendBlock(Head(blocks_queue), f))
    /\ UNCHANGED <<sync_vars, mgr_vars, codec_vars, serve_vars>>

\* Peer::run: events_receiver.recv() returns None.
EventsClosed ==
    /\ status = "running"
    /\ Unhandled(Same("ChannelClosed", {}))
    /\ UNCHANGED <<sync_vars, mgr_vars, codec_vars, serve_vars>>

\* Peer::handle_result: the task's place after the answer r to the score
\* adjustment; PeerDoesntExist is turned into Ok.
AfterAck(r) == IF r \in {"Ok", "PeerDoesntExist"} THEN "running" ELSE "terminated"

\* Peer::handle_result: the acknowledgement of the score adjustment arrives;
\* Ok and PeerDoesntExist both let the loop go on.
ScoreAcked ==
    /\ status = "awaiting_ack"
    /\ \E r \in AckResults :
         /\ status' = AfterAck(r)
         /\ score_event' = <<>>
    /\ UNCHANGED <<peers, known_headers, requested_blocks, blocks_queue,
                   best_known_block, ibd, chain, tip, exit_error, asked,
                   sync_vars, mgr_vars, codec_vars, serve_vars>>

\* The chainstate stores a block that came from elsewhere (another peer, the
\* block producer).
LocalBlock ==
    \E b \in Blocks :
        /\ b \notin chain
        /\ HeaderCheckOk(b)
        /\ GenBlockKnown(Prev(b))
        /\ chain' = chain \cup {b}
        /\ tip' = TipAfter(b)
        /\ UNCHANGED <<peers, status, known_headers, requested_blocks, blocks_queue,
                       best_known_block, ibd, score_event, exit_error, asked,
                       sync_vars, mgr_vars, codec_vars, serve_vars>>

\* The node enters or leaves initial block download.
SetInitialBlockDownload ==
    /\ ibd' = ~ibd
    /\ UNCHANGED <<peers, status, known_headers, requested_blocks, blocks_queue,
                   best_known_block, chain, tip, score_event, exit_error, asked,
                   sync_vars, mgr_vars, codec_vars, serve_vars>>

\* BlockSyncManager::new and a node at genesis: no peer, no session.
SessionInit ==
    /\ peers = {}
    /\ status = "none"
    /\ known_headers = <<>>
    /\ requested_blocks = {}
    /\ blocks_queue = <<>>
    /\ best_known_block = {}
    /\ chain = {}
    /\ tip = Genesis
    /\ score_event = <<>>
    /\ exit_error = ""
    /\ asked = {}

\* No remote peer is followed.
SyncIdle ==
    /\ peer_chain = <<>>
    /\ peer_asked = FALSE
    /\ to_peer = <<>>
    /\ inbox = <<>>
    /\ log = <<>>

\* BlockSyncManager::new: the loop runs, nothing is spawned or sent.
MgrInit ==
    /\ mgr_exit = ""
    /\ tasks = [p \in PeerIds |-> <<>>]
    /\ local_events = [p \in PeerIds |-> <<>>]
    /\ pm_channel = <<>>
    /\ pm_open = TRUE

\* A fresh socket: nothing written, nothing read.
CodecIdle ==
    /\ wire = <<>>
    /\ framed = <<>>
    /\ decoded = [kind |-> "none"]

\* The configured limit; no block has been sent to the peer.
ServeIdle ==
    /\ max_request_blocks_count = MaxRequestBlocksCount
    /\ served = [b \in Blocks |-> 0]

Init ==
    /\ SessionInit
    /\ ibd = TRUE
    /\ SyncIdle
    /\ MgrInit
    /\ CodecIdle
    /\ ServeIdle

Next ==
    \/ Connected
    \/ Disconnected
    \/ Start
    \/ RecvHeaderListRequest
    \/ RecvBlockListRequest
    \/ RecvHeaderListResponse
    \/ RecvBlockResponse
    \/ RecvBlockAnnouncement
    \/ RecvTransactionAnnouncement
    \/ ServeBlock
    \/ EventsClosed
    \/ ScoreAcked
    \/ LocalBlock
    \/ SetInitialBlockDownload

Spec == Init /\ [][Next]_vars

(* ------------------- syncing from a cooperative peer ------------------ *)
\* The chains a cooperative peer can hold: valid headers, each on top of the
\* one before, the first on top of genesis, at most msg_header_count_limit.
PeerChains ==
    {h \in HeaderLists :
        /\ Len(h) <= MsgHeaderCountLimit
        /\ \A i \in 1..Len(h) :
             /\ HeaderCheckOk(h[i])
             /\ Prev(h[i]) = (IF i = 1 THEN Genesis ELSE h[i - 1])}

\* The peer's own locator: its best block.
PeerLocator ==
    GetLocator(IF peer_chain = <<>> THEN Genesis ELSE peer_chain[Len(peer_chain)])

\* The peer's answer to a HeaderListRequest: the headers of its chain above
\* the first locator id it has, at most msg_header_count_limit.
PeerHeaders(locator) ==
    LET mine == {i \in 1..Len(locator) : locator[i] \in Range(peer_chain)}
        first == locator[CHOOSE i \in mine : \A j \in mine : i <= j]
        base == IF mine = {} THEN 0
                ELSE CHOOSE k \in 1..Len(peer_chain) : peer_chain[k] = first
    IN  Take(Drop(peer_chain, base), MsgHeaderCountLimit)

\* The requests among the messages a handler sent.
Requests(sent) ==
    SelectSeq(sent, LAMBDA m : m.type \in {"HeaderListRequest", "BlockListRequest"})

\* What the log keeps of a message: a header request without its locator.
Logged(m) == IF m.type = "HeaderListRequest" THEN [type |-> "HeaderListRequest"] ELSE m

\* The requests the session sent go to the peer and into the log, after the
\* messages it received.
SessionSent(o, received) ==
    /\ to_peer' = to_peer \o Requests(o.sent)
    /\ log' = log \o received
                  \o [i \in 1..Len(Requests(o.sent)) |-> Logged(Requests(o.sent)[i])]

\* Peer::run, before the loop, with working collaborators.
SyncStart ==
    /\ status = "spawned"
    /\ Unhandled(StartOutcome("none"))
    /\ SessionSent(StartOutcome("none"), <<>>)
    /\ UNCHANGED <<peer_chain, peer_asked, inbox, mgr_vars, codec_vars, serve_vars>>

\* The remote peer's session starts with its own HeaderListRequest.
PeerRequestsHeaders ==
    /\ SessionPeer \in peers
    /\ ~peer_asked
    /\ peer_asked' = TRUE
    /\ inbox' = Append(inbox, HeaderListRequest(PeerLocator))
    /\ UNCHANGED <<session_vars, peer_chain, to_peer, log, mgr_vars, codec_vars, serve_vars>>

\* The remote peer answers the oldest request: its headers, or every block
\* asked for, in the order asked.
PeerAnswers ==
    /\ to_peer # <<>>
    /\ LET m == Head(to_peer)
       IN  inbox' = inbox \o
               (IF m.type = "HeaderListRequest"
                THEN <<HeaderListResponse(PeerHeaders(m.locator))>>
                ELSE [i \in 1..Len(m.ids) |-> BlockResponse(m.ids[i])])
    /\ to_peer' = Tail(to_peer)
    /\ UNCHANGED <<session_vars, peer_chain, peer_asked, log, mgr_vars, codec_vars, serve_vars>>

\* Peer::handle_message for the oldest message of the peer, with working
\* collaborators; the blocks of a cooperative peer are valid.
OutcomeOf(m) ==
    IF m.type = "HeaderListRequest" THEN HandleHeaderRequest(m.locator, "none")
    ELSE IF m.type = "HeaderListResponse" THEN HandleHeaderResponse(m.headers, "none")
    ELSE HandleBlockResponse(m.block, TRUE, "none")

SessionHandles ==
    /\ status = "running"
    /\ inbox # <<>>
    /\ Handled(OutcomeOf(Head(inbox)))
    /\ SessionSent(OutcomeOf(Head(inbox)),
                   IF Head(inbox).type = "BlockResponse" THEN <<Head(inbox)>> ELSE <<>>)
    /\ inbox' = Tail(inbox)
    /\ UNCHANGED <<peer_chain, peer_asked, mgr_vars, codec_vars, serve_vars>>

\* A node at genesis meets a peer that holds some chain.
SyncInit ==
    /\ SessionInit
    /\ ibd = TRUE
    /\ peer_chain \in PeerChains
    /\ peer_asked = FALSE
    /\ to_peer = <<>>
    /\ inbox = <<>>
    /\ log = <<>>
    /\ MgrInit
    /\ CodecIdle
    /\ ServeIdle

SyncNext ==
    \/ Connected
    \/ SyncStart
    \/ PeerRequestsHeaders
    \/ PeerAnswers
    \/ SessionHandles
    \/ SetInitialBlockDownload

SyncSpec == SyncInit /\ [][SyncNext]_vars

\* The same session with a peer that answers correctly when it answers but
\* may fall silent at any time.  The session's task is scheduled: Peer::run
\* sends its first request, and its select takes an event that is waiting
\* in events_receiver.  Nothing else wakes the loop: the select of
\* Peer::run has no timer branch.
StallSpec ==
    /\ SyncInit
    /\ [][SyncNext]_vars
    /\ WF_vars(SyncStart)
    /\ WF_vars(SessionHandles)

(* --------------------------- the sync manager ------------------------- *)
\* LocalEvent
ChainstateNewTip(block_id) == [type |-> "ChainstateNewTip", id |-> block_id]

MempoolNewTx(tx_id) == [type |-> "MempoolNewTx", id |-> tx_id]

\* PeerManagerEvent::AdjustPeerScore(peer_id, ban_score, _)
PeerManagerAdjustPeerScore(peer_id, ban_score) == [peer |-> peer_id, score |-> ban_score]

\* The block ids of NewTip events, the transaction ids, the origins and the
\* ban scores of TransactionProcessed events.
TipIds == 1..MainLen

TxIds == {"tx1"}

TxOrigins == {[kind |-> "Remote", peer |-> p] : p \in PeerIds}
                 \cup {[kind |-> k] : k \in {"LocalMempool", "LocalP2p", "PastBlock"}}

BanScores == {0, 100}

\* The result of a step of BlockSyncManager::run: exit is "" when the loop
\* goes on, else the error returned or the panic; ps, ts, le and pm are
\* peers, tasks, local_events and pm_channel after it.
MgrOutcome(exit, le, pm) ==
    [exit |-> exit, ps |-> peers, ts |-> tasks, le |-> le, pm |-> pm]

\* The receiver of the session's local events lives as long as its task.
ReceiverAlive(p) == tasks[p] # <<>> /\ tasks[p][Len(tasks[p])] = "running"

\* Mutant: the first failed send ends the broadcast.
Broadcast_failFast(event) ==
    IF \E p \in peers : ~ReceiverAlive(p) THEN local_events
    ELSE [p \in PeerIds |-> IF p \in peers THEN Append(local_events[p], event)
                            ELSE local_events[p]]

\* for peer in self.peers.values_mut() { let _ = peer.local_event_tx.send(..) }
Broadcast(event) ==
    [p \in PeerIds |-> IF p \in peers /\ ReceiverAlive(p)
                       THEN Append(local_events[p], event)
                       ELSE local_events[p]]

\* Mutant: the chainstate is never seen in initial block download.
ChainstateIsInitialBlockDownload_never == FALSE

\* chainstate_handle.is_initial_block_download()
ChainstateIsInitialBlockDownload == ibd

\* BlockSyncManager::handle_new_tip
HandleNewTip(block_id, f) ==
    IF CallFault(f) THEN MgrOutcome(f, local_events, pm_channel)
    ELSE IF ChainstateIsInitialBlockDownload THEN MgrOutcome("", local_events, pm_channel)
    ELSE MgrOutcome("", Broadcast(ChainstateNewTip(block_id)), pm_channel)

\* Mutant: every origin propagates.
ShouldPropagate_all(origin) == TRUE

\* TxOrigin::should_propagate
ShouldPropagate(origin) ==
    IF origin.kind = "Remote" THEN TRUE
    ELSE IF origin.kind = "LocalMempool" THEN FALSE
    ELSE IF origin.kind = "LocalP2p" THEN TRUE
    ELSE FALSE

\* BlockSyncManager::handle_transaction_processed
HandleTransactionProcessed(tx_id, origin, result, ban_score) ==
    IF result = "Ok"
    THEN IF ShouldPropagate(origin)
         THEN MgrOutcome("", Broadcast(MempoolNewTx(tx_id)), pm_channel)
         ELSE MgrOutcome("", local_events, pm_channel)
    ELSE IF origin.kind = "Remote" /\ ban_score > 0
    THEN IF pm_open
         THEN MgrOutcome("", local_events,
                         Append(pm_channel, PeerManagerAdjustPeerScore(origin.peer, ban_score)))
         ELSE MgrOutcome("ChannelClosed", local_events, pm_channel)
    ELSE MgrOutcome("", local_events, pm_channel)

\* Mutant: the assertion at the end of register_peer is left out.
RegisterPeer_noAssert(peer_id) ==
    [exit |-> "",
     ps |-> peers \cup {peer_id},
     ts |-> [tasks EXCEPT ![peer_id] = Append(@, "running")],
     le |-> [local_events EXCEPT ![peer_id] = <<>>],
     pm |-> pm_channel]

\* BlockSyncManager::register_peer: the task is spawned and its context put
\* in the map (in place of the one that was there), then the assertion.
RegisterPeer(peer_id) ==
    [exit |-> IF peer_id \in peers THEN "panic: Registered duplicated peer" ELSE "",
     ps |-> peers \cup {peer_id},
     ts |-> [tasks EXCEPT ![peer_id] = Append(@, "running")],
     le |-> [local_events EXCEPT ![peer_id] = <<>>],
     pm |-> pm_channel]

\* BlockSyncManager::unregister_peer
UnregisterPeer(peer_id) ==
    IF peer_id \notin peers
    THEN MgrOutcome("panic: Unregistering unknown peer", local_events, pm_channel)
    ELSE [exit |-> "",
          ps |-> peers \ {peer_id},
          ts |-> [tasks EXCEPT ![peer_id] = <<>>],
          le |-> [local_events EXCEPT ![peer_id] = <<>>],
          pm |-> pm_channel]

\* One pass of the loop of BlockSyncManager::run.
MgrStep(o) ==
    /\ mgr_exit = ""
    /\ mgr_exit' = o.exit
    /\ peers' = o.ps
    /\ tasks' = o.ts
    /\ local_events' = o.le
    /\ pm_channel' = o.pm
    /\ UNCHANGED <<status, known_headers, requested_blocks, blocks_queue,
                   best_known_block, ibd, chain, tip, score_event, exit_error, asked,
                   sync_vars, codec_vars, serve_vars, pm_open>>

\* Every channel to a session has room for one more event.
LocalEventsRoom == \A p \in PeerIds : Len(local_events[p]) < MaxInFlight

\* new_tip_receiver.recv() yields a block id.
NewTip ==
    /\ LocalEventsRoom
    /\ \E block_id \in TipIds, f \in CallFaults : MgrStep(HandleNewTip(block_id, f))

\* tx_processed_receiver.recv() yields an event.
TransactionProcessed ==
    /\ LocalEventsRoom
    /\ Len(pm_channel) < MaxInFlight
    /\ \E tx_id \in TxIds, origin \in TxOrigins, result \in {"Ok", "Err"},
          ban_score \in BanScores :
         MgrStep(HandleTransactionProcessed(tx_id, origin, result, ban_score))

\* BlockSyncManager::handle_peer_event, SyncingEvent::Connected
PeerConnected ==
    \E peer_id \in PeerIds : MgrStep(RegisterPeer(peer_id))

\* BlockSyncManager::handle_peer_event, SyncingEvent::Disconnected
PeerDisconnected ==
    \E peer_id \in PeerIds : MgrStep(UnregisterPeer(peer_id))

\* new_tip_receiver.recv() yields None: expect() panics.
NewTipSenderClosed ==
    MgrStep(MgrOutcome("panic: New tip sender was closed", local_events, pm_channel))

\* tx_processed_receiver.recv() yields None: expect() panics.
TxProcessedSenderClosed ==
    MgrStep(MgrOutcome("panic: Transaction processed sender closed",
                       local_events, pm_channel))

\* syncing_event_receiver.poll_next() yields an error, which run returns.
SyncingEventsFailed ==
    MgrStep(MgrOutcome("ChannelClosed", local_events, pm_channel))

\* The task of a session ends by itself (Peer::run returns): its receiver of
\* local events is dropped with it; its context stays in the map.
SessionTaskEnds ==
    \E p \in PeerIds :
        /\ ReceiverAlive(p)
        /\ tasks' = [tasks EXCEPT ![p][Len(tasks[p])] = "ended"]
        /\ local_events' = [local_events EXCEPT ![p] = <<>>]
        /\ UNCHANGED <<session_vars, sync_vars, codec_vars, serve_vars, mgr_exit, pm_channel, pm_open>>

\* A running session takes the oldest local event sent to it.
SessionTakesLocalEvent ==
    \E p \in PeerIds :
        /\ ReceiverAlive(p)
        /\ local_events[p] # <<>>
        /\ local_events' = [local_events EXCEPT ![p] = Tail(@)]
        /\ UNCHANGED <<session_vars, sync_vars, codec_vars, serve_vars, mgr_exit, tasks, pm_channel, pm_open>>

\* The peer manager takes the oldest event sent to it.
PeerManagerTakes ==
    /\ pm_open
    /\ pm_channel # <<>>
    /\ pm_channel' = Tail(pm_channel)
    /\ UNCHANGED <<session_vars, sync_vars, codec_vars, serve_vars, mgr_exit, tasks, local_events, pm_open>>

\* The peer manager goes away: its receiver is dropped.
PeerManagerCloses ==
    /\ pm_open
    /\ pm_open' = FALSE
    /\ pm_channel' = <<>>
    /\ UNCHANGED <<session_vars, sync_vars, codec_vars, serve_vars, mgr_exit, tasks, local_events>>

MgrNext ==
    \/ NewTip
    \/ TransactionProcessed
    \/ PeerConnected
    \/ PeerDisconnected
    \/ NewTipSenderClosed
    \/ TxProcessedSenderClosed
    \/ SyncingEventsFailed
    \/ SessionTaskEnds
    \/ SessionTakesLocalEvent
    \/ PeerManagerTakes
    \/ PeerManagerCloses
    \/ SetInitialBlockDownload

MgrSpec == Init /\ [][MgrNext]_vars

(* --------------------------- the syncing codec ------------------------ *)
\* The values of a payload byte.
Bytes == 0..2

\* The payloads written: every one up to one byte more than the maximum.
Payloads == SeqsUpTo(Bytes, MessageMaxSize + 1)

\* The unsigned varint of n, least significant group first; a group holds
\* VarintGroup values and a set continuation flag adds VarintGroup.
RECURSIVE EncodeLength(_)
EncodeLength(n) ==
    IF n < VarintGroup THEN <<n>>
    ELSE <<VarintGroup + (n % VarintGroup)>> \o EncodeLength(n \div VarintGroup)

\* The varint at the front of w: its value n and the bytes it takes, or
\* ok = FALSE when w ends inside it.
RECURSIVE DecodeLength(_)
DecodeLength(w) ==
    IF w = <<>> THEN [ok |-> FALSE, n |-> 0, used |-> 0]
    ELSE IF Head(w) < VarintGroup THEN [ok |-> TRUE, n |-> Head(w), used |-> 1]
    ELSE LET r == DecodeLength(Tail(w))
         IN  [ok |-> r.ok, n |-> (Head(w) - VarintGroup) + VarintGroup * r.n,
              used |-> r.used + 1]

\* write_length_prefixed: the length, then the payload.
WriteLengthPrefixed(data) == EncodeLength(Len(data)) \o data

\* Mutant: a frame of exactly the maximum size is refused.
FrameTooLarge_offByOne(n) == n >= MessageMaxSize

\* read_length_prefixed: the announced length is above the maximum.
FrameTooLarge(n) == n > MessageMaxSize

\* read_length_prefixed(socket, MESSAGE_MAX_SIZE): the payload, or the kind
\* of io::Error; rest is what stays in the socket.
ReadLengthPrefixed(w) ==
    LET len == DecodeLength(w)
        body == Drop(w, len.used)
    IN  IF ~len.ok THEN [res |-> "UnexpectedEof", data |-> <<>>, rest |-> <<>>]
        ELSE IF FrameTooLarge(len.n)
             THEN [res |-> "InvalidData", data |-> <<>>, rest |-> body]
        ELSE IF Len(body) < len.n
             THEN [res |-> "UnexpectedEof", data |-> <<>>, rest |-> <<>>]
        ELSE [res |-> "Ok", data |-> Take(body, len.n), rest |-> Drop(body, len.n)]

\* SyncMessagingCodec::read_request / read_response: an empty payload is an
\* error, any other is wrapped as it is.
ReadMessage(kind, w) ==
    LET r == ReadLengthPrefixed(w)
    IN  IF r.res = "Ok" /\ r.data = <<>>
        THEN [kind |-> kind, res |-> "UnexpectedEof", data |-> <<>>, rest |-> r.rest]
        ELSE [kind |-> kind, res |-> r.res, data |-> r.data, rest |-> r.rest]

\* The tests' set-up: a payload is written, length-prefixed, into a fresh
\* socket.
WriteFrame ==
    /\ wire = <<>> /\ decoded.kind = "none" /\ framed = <<>>
    /\ \E data \in Payloads :
         /\ wire' = WriteLengthPrefixed(data)
         /\ framed' = data
    /\ UNCHANGED <<decoded, session_vars, sync_vars, mgr_vars, serve_vars>>

\* A read of the codec: the message or the error, and what stays in the
\* socket.
Reads(kind) ==
    /\ LET r == ReadMessage(kind, wire)
       IN  /\ decoded' = [kind |-> r.kind, res |-> r.res, data |-> r.data]
           /\ wire' = r.rest
    /\ UNCHANGED <<framed, session_vars, sync_vars, mgr_vars, serve_vars>>

\* codec.read_request(&protocol, &mut socket)
ReadRequest ==
    /\ wire # <<>> /\ decoded.kind = "none"
    /\ Reads("request")

\* codec.read_response(&protocol, &mut socket)
ReadResponse ==
    /\ wire # <<>> /\ decoded.kind = "none"
    /\ Reads("response")

\* The socket is dropped and a new one is taken.
NewSocket ==
    /\ decoded.kind # "none"
    /\ wire' = <<>>
    /\ framed' = <<>>
    /\ decoded' = [kind |-> "none"]
    /\ UNCHANGED <<session_vars, sync_vars, mgr_vars, serve_vars>>

CodecNext ==
    \/ WriteFrame
    \/ ReadRequest
    \/ ReadResponse
    \/ NewSocket

CodecSpec == Init /\ [][CodecNext]_vars

(* ----------------------- serving blocks to a peer --------------------- *)
\* The count of BlockResponses per block id after the messages `sent`.
Served(sent) ==
    [b \in Blocks |->
        LET n == served[b] + Cardinality({i \in 1..Len(sent) :
                                 sent[i].type = "BlockResponse" /\ sent[i].block = b})
        IN  IF n > 2 THEN 2 ELSE n]

\* Peer::run, second branch of the select: the front of blocks_queue is
\* popped and sent; the block sent is counted.
ServeQueue ==
    /\ status = "running"
    /\ blocks_queue # <<>>
    /\ \E f \in Faults :
         /\ Unhandled(SendBlock(Head(blocks_queue), f))
         /\ served' = Served(SendBlock(Head(blocks_queue), f).sent)
    /\ UNCHANGED <<sync_vars, mgr_vars, codec_vars, max_request_blocks_count>>

\* A node at genesis whose sessions accept requests of more than one block.
ServeInit ==
    /\ SessionInit
    /\ ibd = TRUE
    /\ SyncIdle
    /\ MgrInit
    /\ CodecIdle
    /\ max_request_blocks_count = ServeMaxRequestBlocksCount
    /\ served = [b \in Blocks |-> 0]

\* One session from its start on: the peer asks for blocks, the session
\* serves them, while the chainstate grows.
ServeNext ==
    \/ Connected
    \/ Start
    \/ RecvBlockListRequest
    \/ ServeQueue
    \/ ScoreAcked
    \/ LocalBlock
    \/ SetInitialBlockDownload

ServeSpec == ServeInit /\ [][ServeNext]_vars

\* The same session under the scheduler of Peer::run: tokio's select polls
\* its ready branches in random order, so a queue that is non-empty again
\* and again when the loop comes round is served.  Nothing is assumed of the
\* peer or of the peer manager.
ServeFairSpec ==
    /\ ServeInit
    /\ [][ServeNext]_vars
    /\ SF_vars(ServeQueue)

(* ------------------------------ properties ---------------------------- *)
\* The outcomes of every event the session can be handed in this state.
EventOutcomes ==
    HeaderRequestOutcomes \cup BlockRequestOutcomes \cup HeaderResponseOutcomes
        \cup BlockResponseOutcomes \cup BlockAnnouncementOutcomes
        \cup TransactionAnnouncementOutcomes

ScoredErrors == ProtocolErrors \cup {"TxValidationError", "CheckBlockFailed"}

\* C1: in every reachable state of the session, requested_blocks holds at
\* most max_request_blocks_count ids.
C1_RequestedBlocksBounded ==
    Cardinality(requested_blocks) <= max_request_blocks_count

\* C2: every BlockListRequest is sent from a state in which requested_blocks
\* is empty: whatever event is handled, the ids it requests are all that
\* requested_blocks holds afterwards.
C2_NoRequestWhileRequested ==
    status = "running" =>
        \A o \in EventOutcomes :
            RequestedIn(o.sent) # {} => o.rb \ RequestedIn(o.sent) = {}

\* C3: a BlockResponse for an id that is not in requested_blocks makes no
\* chainstate call, yields UnexpectedMessage("block response"), is scored
\* and changes nothing; every block handed to process_block was asked for in
\* a BlockListRequest of this session and not received since.
C3_NoUnrequestedBlockAccepted ==
    status = "running" =>
        \A id \in Blocks, body_ok \in BOOLEAN, f \in Faults :
            LET o == HandleBlockResponse(id, body_ok, f)
            IN  /\ id \notin requested_blocks =>
                    /\ o.res = "UnexpectedMessage:block response"
                    /\ o.calls = {}
                    /\ o.sent = <<>>
                    /\ o.rb = requested_blocks /\ o.kh = known_headers
                    /\ o.ch = chain /\ o.tp = tip
                    /\ ScoreEvents(o.res) = <<AdjustPeerScore(o.res)>>
                    /\ StatusAfter(o.res) = "awaiting_ack"
                /\ "process_block" \in o.calls => id \in asked

\* C3 witness: an unrequested block has just been scored while other blocks
\* are still outstanding.
C3_Witness ==
    /\ status = "awaiting_ack"
    /\ score_event = <<AdjustPeerScore("UnexpectedMessage:block response")>>
    /\ requested_blocks # {}

\* C4: best_known_block never decreases during the session: sending a
\* block leaves it at least what it was.
C4_BestKnownBlockMonotonic ==
    (status = "running" /\ blocks_queue # <<>>) =>
        \A f \in Faults :
            OptLeq(best_known_block, SendBlock(Head(blocks_queue), f).bk)

\* C5: during initial block download neither a HeaderListRequest nor a
\* BlockListRequest is answered: nothing is sent and nothing is queued for
\* sending.
C5_NoServingDuringIbd ==
    (status = "running" /\ ibd) =>
        /\ \A l \in Locators, f \in Faults :
             LET o == HandleHeaderRequest(l, f)
             IN  o.sent = <<>> /\ o.bq = blocks_queue
        /\ \A ids \in BlockIdLists, f \in CallFaults :
             LET o == HandleBlockRequest(ids, f)
             IN  o.sent = <<>> /\ o.bq = blocks_queue

\* C5 witness: in initial block download, with an empty serve queue, the
\* session is asked for headers and for a block it would serve otherwise.
C5_Witness ==
    /\ status = "running" /\ ibd /\ blocks_queue = <<>>
    /\ tip # Genesis
    /\ GetHeaders(<<Genesis>>, MsgHeaderCountLimit) # <<>>
    /\ \E id \in Blocks : CheckRequestedIds(<<id>>, Unwrap(best_known_block, 0)) = "Ok"

\* C6 as stated: during initial block download no HeaderListRequest and no
\* BlockListRequest is scored, whatever it contains.
C6_IbdNeverScored ==
    (status = "running" /\ ibd) =>
        /\ \A l \in Locators, f \in Faults :
             ScoreEvents(HandleHeaderRequest(l, f).res) = <<>>
        /\ \A ids \in BlockIdLists, f \in CallFaults :
             ScoreEvents(HandleBlockRequest(ids, f).res) = <<>>

\* C6 amended: during initial block download a HeaderListRequest with at
\* most msg_max_locator_count ids and a non-empty BlockListRequest are
\* ignored without penalty; a longer locator is scored LocatorSizeExceeded
\* and an empty id list ZeroBlocksInRequest, as outside of it.
C6_IbdIgnoresWellFormedRequests ==
    (status = "running" /\ ibd) =>
        /\ \A l \in Locators, f \in Faults :
             LET o == HandleHeaderRequest(l, f)
             IN  IF Len(l) <= MsgMaxLocatorCount
                 THEN o.res = "Ok" /\ ScoreEvents(o.res) = <<>> /\ o.sent = <<>>
                 ELSE ScoreEvents(o.res) = <<AdjustPeerScore("LocatorSizeExceeded")>>
        /\ \A ids \in BlockIdLists, f \in CallFaults :
             LET o == HandleBlockRequest(ids, f)
             IN  IF Len(ids) > 0
                 THEN o.res = "Ok" /\ ScoreEvents(o.res) = <<>> /\ o.bq = blocks_queue
                 ELSE ScoreEvents(o.res) = <<AdjustPeerScore("ZeroBlocksInRequest")>>

\* C6 witness: a malformed request has just been scored during initial
\* block download.
C6_Witness ==
    /\ status = "awaiting_ack" /\ ibd
    /\ score_event = <<AdjustPeerScore("LocatorSizeExceeded")>>

\* C7: every scored error of an event (a protocol error, a transaction
\* validation error, a failed block check) sends exactly one
\* AdjustPeerScore for this peer with the ban score of that error, and the
\* session is not ended: it waits for the acknowledgement with its state
\* kept.
C7_ScoredErrorsAreScoredOnce ==
    /\ status = "running" =>
         \A o \in EventOutcomes :
             o.res \in ScoredErrors =>
                 /\ ScoreEvents(o.res) = <<[peer |-> SessionPeer, score |-> o.res]>>
                 /\ StatusAfter(o.res) = "awaiting_ack"
    /\ status = "awaiting_ack" =>
         /\ Len(score_event) = 1
         /\ score_event[1].peer = SessionPeer
         /\ score_event[1].score \in ScoredErrors
         /\ exit_error = ""
         /\ SessionPeer \in peers

\* C7 witness: a block that fails the chainstate's check has been scored
\* and the session lives on with its other requests.
C7_Witness ==
    /\ status = "awaiting_ack"
    /\ score_event = <<AdjustPeerScore("CheckBlockFailed")>>
    /\ known_headers # <<>>

\* C8 as stated: after a fatal error the task has ended without a score
\* adjustment and the peer is no longer in the sync manager's map.
C8_TerminatedIsUnregistered ==
    status = "terminated" => (score_event = <<>> /\ SessionPeer \notin peers)

\* C8 amended: a fatal error of an event ends the run loop with that error
\* and without a score adjustment; the peer stays in the sync manager's map
\* (it is taken out only by unregister_peer on a Disconnected event).
C8_FatalEndsTaskOnly ==
    /\ status = "running" =>
         \A o \in EventOutcomes :
             Classify(o.res) = "fatal" =>
                 StatusAfter(o.res) = "terminated" /\ ScoreEvents(o.res) = <<>>
    /\ status = "terminated" =>
         /\ exit_error \notin {"", "Ok"}
         /\ exit_error \notin ScoredErrors
         /\ score_event = <<>>
         /\ SessionPeer \in peers

\* C8 witness: the task has ended on a failed subsystem call.
C8_Witness ==
    /\ status = "terminated" /\ exit_error = "SubsystemFailure"
    /\ SessionPeer \in peers

\* C9 as stated: every non-empty HeaderListResponse within the limit that
\* is not a connected chain, or whose first header's parent is unknown, is
\* scored DisconnectedHeaders, requests nothing and changes nothing.
C9_DisconnectedAlwaysScored ==
    status = "running" =>
        \A h \in HeaderLists :
            LET o == HandleHeaderResponse(h, "none")
            IN  (/\ h # <<>>
                 /\ Len(h) <= MsgHeaderCountLimit
                 /\ \/ \E i \in 1..(Len(h) - 1) : Prev(h[i + 1]) # h[i]
                    \/ Prev(h[1]) \notin chain \cup {Genesis})
                => /\ o.res = "DisconnectedHeaders"
                   /\ ScoreEvents(o.res) = <<AdjustPeerScore("DisconnectedHeaders")>>
                   /\ o.sent = <<>>
                   /\ o.kh = known_headers /\ o.rb = requested_blocks

\* C9 amended: the same for a response received while known_headers is
\* empty (with headers held it is UnexpectedMessage), the parent of the
\* first header being unknown when the chainstate answers so.
C9_DisconnectedScoredWhenExpected ==
    (status = "running" /\ known_headers = <<>>) =>
        \A h \in HeaderLists, f \in Faults :
            LET o == HandleHeaderResponse(h, f)
            IN  (/\ h # <<>>
                 /\ Len(h) <= MsgHeaderCountLimit
                 /\ \/ \E i \in 1..(Len(h) - 1) : Prev(h[i + 1]) # h[i]
                    \/ (f # "SubsystemFailure" /\ Prev(h[1]) \notin chain \cup {Genesis}))
                => /\ o.res = "DisconnectedHeaders"
                   /\ ScoreEvents(o.res) = <<AdjustPeerScore("DisconnectedHeaders")>>
                   /\ StatusAfter(o.res) = "awaiting_ack"
                   /\ o.sent = <<>>
                   /\ o.kh = known_headers /\ o.rb = requested_blocks

\* C9 witness: disconnected headers have just been scored while blocks are
\* outstanding.
C9_Witness ==
    /\ status = "awaiting_ack"
    /\ score_event = <<AdjustPeerScore("DisconnectedHeaders")>>
    /\ requested_blocks # {}
    /\ known_headers = <<>>

\* C10 as stated: in every state an empty HeaderListResponse is handled as
\* Ok: no score, no message, known_headers and requested_blocks unchanged.
C10_EmptyResponseAlwaysOk ==
    status = "running" =>
        \A f \in Faults :
            LET o == HandleHeaderResponse(<<>>, f)
            IN  /\ o.res = "Ok" /\ ScoreEvents(o.res) = <<>> /\ o.sent = <<>>
                /\ o.kh = known_headers /\ o.rb = requested_blocks

\* C10 amended: so it is while known_headers is empty; while headers of an
\* earlier response are held it is UnexpectedMessage("headers response")
\* and scored, like every other header response.
C10_EmptyResponseOkWhenExpected ==
    status = "running" =>
        \A f \in Faults :
            LET o == HandleHeaderResponse(<<>>, f)
            IN  /\ o.sent = <<>> /\ o.calls = {}
                /\ o.kh = known_headers /\ o.rb = requested_blocks
                /\ IF known_headers = <<>>
                   THEN o.res = "Ok" /\ ScoreEvents(o.res) = <<>>
                   ELSE ScoreEvents(o.res) =
                            <<AdjustPeerScore("UnexpectedMessage:headers response")>>

\* C10 witness: the session waits for blocks, holds no headers, and can be
\* handed an empty header response.
C10_Witness ==
    /\ status = "running"
    /\ known_headers = <<>>
    /\ requested_blocks # {}
    /\ HandleHeaderResponse(<<>>, "none").res = "Ok"

\* C11: a header that reaches the chainstate's preliminary header check and
\* fails it, delivered by a block announcement or as the first new header
\* of a HeaderListResponse, yields CheckBlockFailed: exactly one
\* AdjustPeerScore for this peer with that error's ban score, no
\* BlockListRequest (nothing is sent, nothing becomes requested), and the
\* session goes on after the acknowledgement.
C11_BadHeaderScoredOnce ==
    status = "running" =>
        /\ \A f \in Faults \ {"SubsystemFailure"} :
             LET o == HandleBlockAnnouncement(BadBlock, f)
             IN  (/\ requested_blocks = {}
                  /\ BadBlock \notin chain
                  /\ Prev(BadBlock) \in chain \cup {Genesis})
                 => /\ o.res = "CheckBlockFailed"
                    /\ ScoreEvents(o.res) = <<[peer |-> SessionPeer, score |-> "CheckBlockFailed"]>>
                    /\ StatusAfter(o.res) = "awaiting_ack"
                    /\ o.sent = <<>>
                    /\ o.rb = requested_blocks /\ o.kh = known_headers
        /\ \A h \in HeaderLists, f \in Faults \ {"SubsystemFailure"} :
             LET o == HandleHeaderResponse(h, f)
                 new == SelectSeq(h, LAMBDA b : b \notin chain)
             IN  (/\ known_headers = <<>>
                  /\ h # <<>> /\ Len(h) <= MsgHeaderCountLimit
                  /\ \A i \in 1..(Len(h) - 1) : Prev(h[i + 1]) = h[i]
                  /\ Prev(h[1]) \in chain \cup {Genesis}
                  /\ new # <<>> /\ new[1] = BadBlock)
                 => /\ o.res = "CheckBlockFailed"
                    /\ ScoreEvents(o.res) = <<[peer |-> SessionPeer, score |-> "CheckBlockFailed"]>>
                    /\ StatusAfter(o.res) = "awaiting_ack"
                    /\ o.sent = <<>>
                    /\ o.rb = requested_blocks /\ o.kh = known_headers

\* C11 witness: the session is idle, the parent of the bad block is stored,
\* and the announcement of the bad block is scored; so is a header response
\* that brings it after its stored parent.
C11_Witness ==
    /\ status = "running"
    /\ requested_blocks = {} /\ known_headers = <<>>
    /\ Prev(BadBlock) \in chain /\ BadBlock \notin chain
    /\ HandleBlockAnnouncement(BadBlock, "none").res = "CheckBlockFailed"
    /\ HandleHeaderResponse(<<Prev(BadBlock), BadBlock>>, "none").res = "CheckBlockFailed"

\* C12: once a block at height h has been sent to the peer, a later
\* BlockListRequest of stored blocks that contains a block at height <= h
\* is rejected with DuplicatedBlockRequest and queues nothing: the check of
\* the requested ids against best_known_block as send_block leaves it
\* finds the duplicate, for every block the session is about to send.
C12_SentHeightsRejected ==
    (status = "running" /\ blocks_queue # <<>>) =>
        LET id == Head(blocks_queue)
            after == SendBlock(id, "none")
        IN  \A ids \in BlockIdLists :
                (/\ ids # <<>> /\ Len(ids) <= max_request_blocks_count
                 /\ \A i \in 1..Len(ids) : ids[i] \in chain
                 /\ \E i \in 1..Len(ids) : Height(ids[i]) <= Height(id))
                => /\ after.res = "Ok"
                   /\ CheckRequestedIds(ids, Unwrap(after.bk, 0)) = "DuplicatedBlockRequest"
                   /\ ScoreEvents("DuplicatedBlockRequest")
                          = <<AdjustPeerScore("DuplicatedBlockRequest")>>

\* C14: a transaction announcement reaches the mempool only on a session
\* whose common_services include TransactionRelay; on a session registered
\* without it the announcement is UnexpectedMessage, scored, add_transaction
\* is not called and the session goes on.  The session keeps no services:
\* its handler is the same whatever the connection was registered with.
C14_TransactionRelayGated ==
    status = "running" =>
        \A services \in ServiceSets, mres \in MempoolResults, f \in CallFaults :
            LET o == HandleTransactionAnnouncement(mres, f)
            IN  "TransactionRelay" \notin services =>
                    /\ "add_transaction" \notin o.calls
                    /\ Len(ScoreEvents(o.res)) = 1
                    /\ StatusAfter(o.res) = "awaiting_ack"

\* The log of a complete sync with a peer whose chain is c: the initial
\* header request; then batch after batch of max_request_blocks_count
\* blocks (the last one shorter), each requested in chain order and
\* received in full before the next request; then a header request.
RECURSIVE BatchLog(_)
BatchLog(c) ==
    IF c = <<>> THEN <<>>
    ELSE LET n == IF Len(c) < max_request_blocks_count THEN Len(c) ELSE max_request_blocks_count
         IN  <<[type |-> "BlockListRequest", ids |-> SubSeq(c, 1, n)]>>
                 \o [i \in 1..n |-> [type |-> "BlockResponse", block |-> c[i]]]
                 \o BatchLog(SubSeq(c, n + 1, Len(c)))

ExpectedLog(c) ==
    <<[type |-> "HeaderListRequest"]>>
        \o (IF c = <<>> THEN <<>> ELSE BatchLog(c) \o <<[type |-> "HeaderListRequest"]>>)

IsPrefix(a, b) == Len(a) <= Len(b) /\ a = SubSeq(b, 1, Len(a))

\* Nothing is in flight between a started session and the peer.
SyncQuiet == status = "running" /\ to_peer = <<>> /\ inbox = <<>>

Delivered(le, p, event) ==
    le[p] = IF p \in peers /\ tasks[p] # <<>> /\ tasks[p][Len(tasks[p])] = "running"
            THEN local_events[p] \o <<event>>
            ELSE local_events[p]

\* C15: on NewTip(block_id), with the chainstate answering, the sync manager
\* sends ChainstateNewTip(block_id) exactly once to every session registered
\* at that moment if initial block download is finished, and to no session
\* while it lasts; the loop goes on and nothing else is sent.
C15_NewTipBroadcast ==
    mgr_exit = "" =>
        \A block_id \in TipIds :
            LET o == HandleNewTip(block_id, "none")
            IN  /\ o.exit = ""
                /\ o.pm = pm_channel /\ o.ps = peers /\ o.ts = tasks
                /\ IF ibd THEN o.le = local_events
                   ELSE \A p \in PeerIds :
                            Delivered(o.le, p, [type |-> "ChainstateNewTip", id |-> block_id])

\* C15 witness: outside initial block download every peer id is registered
\* and each session has been sent the same new tip, once.
C15_Witness ==
    /\ mgr_exit = "" /\ ~ibd /\ peers = PeerIds
    /\ \E block_id \in TipIds :
         \A p \in PeerIds :
             /\ Len(local_events[p]) = 1
             /\ local_events[p][1].type = "ChainstateNewTip"
             /\ local_events[p][1].id = block_id

\* C16: on TransactionProcessed, MempoolNewTx(tx_id) is broadcast to every
\* registered session iff the result is Ok and the origin is Remote or
\* LocalP2p; AdjustPeerScore(peer_id, ban_score) goes to the peer manager
\* iff the result is Err, the origin is Remote(peer_id) and ban_score > 0;
\* an error of a Local origin is never scored.
C16_TransactionProcessed ==
    (mgr_exit = "" /\ pm_open) =>
        \A tx_id \in TxIds, origin \in TxOrigins, result \in {"Ok", "Err"},
           ban_score \in BanScores :
            LET o == HandleTransactionProcessed(tx_id, origin, result, ban_score)
                propagate == result = "Ok" /\ origin.kind \in {"Remote", "LocalP2p"}
                score == result = "Err" /\ origin.kind = "Remote" /\ ban_score > 0
            IN  /\ o.exit = "" /\ o.ps = peers /\ o.ts = tasks
                /\ IF propagate
                   THEN \A p \in PeerIds :
                            Delivered(o.le, p, [type |-> "MempoolNewTx", id |-> tx_id])
                   ELSE o.le = local_events
                /\ IF score
                   THEN o.pm = pm_channel \o <<[peer |-> origin.peer, score |-> ban_score]>>
                   ELSE o.pm = pm_channel

\* C16 witness: a transaction has been broadcast to two sessions and a peer
\* that is not registered has been scored for another.
C16_Witness ==
    /\ mgr_exit = "" /\ pm_open /\ peers = PeerIds
    /\ \A p \in PeerIds :
         /\ Len(local_events[p]) = 1
         /\ local_events[p][1].type = "MempoolNewTx"
    /\ Len(pm_channel) = 1 /\ pm_channel[1].score > 0

\* C17 as stated: a second session is never spawned under a peer id that
\* has one.
C17_NoSecondSession ==
    \A p \in PeerIds : Len(tasks[p]) <= 1

\* C17 amended: register_peer for a peer id that is in the map panics, and
\* the sync manager ends with it; by then the new session's task is spawned
\* beside the old one and its context has taken the old one's place in the
\* map.  While the sync manager runs, the map holds exactly the ids that
\* have a session task, one task each.
C17_DuplicateRegisterPanics ==
    /\ mgr_exit = "" =>
         /\ \A p \in PeerIds : Len(tasks[p]) <= 1 /\ (p \in peers <=> tasks[p] # <<>>)
         /\ \A p \in peers :
              LET o == RegisterPeer(p)
              IN  /\ o.exit = "panic: Registered duplicated peer"
                  /\ o.ps = peers
                  /\ Len(o.ts[p]) = 2
    /\ mgr_exit = "panic: Registered duplicated peer" =>
         \E p \in peers : Len(tasks[p]) = 2
    /\ \A p \in PeerIds : Len(tasks[p]) = 2 => mgr_exit = "panic: Registered duplicated peer"

\* C17 witness: the sync manager has panicked on a duplicate Connected with
\* two session tasks of that peer running.
C17_Witness ==
    /\ mgr_exit = "panic: Registered duplicated peer"
    /\ \E p \in peers : tasks[p] = <<"running", "running">>

\* C18: unregister_peer for a peer id that is not in the map is tolerated:
\* the map is unchanged and the sync manager goes on; for an id in the map
\* the entry is removed and the session's task aborted.
C18_UnknownUnregisterTolerated ==
    mgr_exit = "" =>
        \A p \in PeerIds :
            LET o == UnregisterPeer(p)
            IN  /\ o.exit = ""
                /\ o.ps = peers \ {p}
                /\ o.ts[p] = <<>>

\* C19: when the new-tip channel or the transaction-processed channel is
\* closed, run returns an error and does not panic; when the peer manager's
\* channel is closed at a score adjustment, run returns ChannelClosed.
C19_ClosedChannelsReturnErrors ==
    /\ mgr_exit \notin {"panic: New tip sender was closed",
                        "panic: Transaction processed sender closed"}
    /\ (mgr_exit = "" /\ ~pm_open) =>
         \A tx_id \in TxIds, p \in PeerIds :
             HandleTransactionProcessed(tx_id, [kind |-> "Remote", peer |-> p], "Err", 100).exit
                 = "ChannelClosed"

\* A step in which a session's task ends by itself.
TaskEnded(p) ==
    /\ tasks[p] # <<>> /\ tasks[p][Len(tasks[p])] = "running"
    /\ tasks'[p] # <<>> /\ tasks'[p][Len(tasks'[p])] = "ended"

C21_StalledSessionEnds ==
    (status = "running" /\ requested_blocks # {})
        ~> (requested_blocks = {} \/ status \notin {"running", "awaiting_ack"})

\* C22: outside initial block download, with the chainstate answering, a
\* non-empty BlockListRequest of stored blocks above best_known_block is
\* accepted (its ids are queued in order) when it fills blocks_queue up to
\* max_request_blocks_count at most; when |ids| + |blocks_queue| is larger
\* it is rejected with BlocksRequestLimitExceeded, scored, without a
\* chainstate call and with nothing queued.
C22_BlocksRequestLimit ==
    (status = "running" /\ ~ibd) =>
        \A ids \in BlockIdLists :
            (/\ ids # <<>>
             /\ \A i \in 1..Len(ids) :
                  ids[i] \in chain /\ Height(ids[i]) > Unwrap(best_known_block, 0))
            => /\ Len(ids) + Len(blocks_queue) <= max_request_blocks_count =>
                    LET o == HandleBlockRequest(ids, "none")
                    IN  /\ o.res = "Ok" /\ ScoreEvents(o.res) = <<>>
                        /\ o.bq = blocks_queue \o ids
               /\ Len(ids) + Len(blocks_queue) > max_request_blocks_count =>
                    \A f \in CallFaults :
                        LET o == HandleBlockRequest(ids, f)
                        IN  /\ o.res = "BlocksRequestLimitExceeded"
                            /\ ScoreEvents(o.res) = <<AdjustPeerScore("BlocksRequestLimitExceeded")>>
                            /\ o.calls = {}
                            /\ o.bq = blocks_queue

\* C22 witness: a request has filled blocks_queue exactly to the limit, and
\* one more stored block above best_known_block can be asked for.
C22_Witness ==
    /\ status = "running" /\ ~ibd
    /\ Len(blocks_queue) = max_request_blocks_count
    /\ \E id \in chain : Height(id) > Unwrap(best_known_block, 0)

\* C23: outside initial block download, with working collaborators, a
\* HeaderListRequest whose locator has exactly msg_max_locator_count ids is
\* answered with one HeaderListResponse, the headers get_headers gives for
\* the locator, at most msg_header_count_limit of them; a locator with one
\* id more is rejected with LocatorSizeExceeded, scored, before any
\* chainstate call and without a reply.
C23_LocatorLimit ==
    (status = "running" /\ ~ibd) =>
        \A l \in Locators :
            /\ Len(l) = MsgMaxLocatorCount =>
                 LET o == HandleHeaderRequest(l, "none")
                 IN  /\ o.res = "Ok" /\ ScoreEvents(o.res) = <<>>
                     /\ Len(o.sent) = 1
                     /\ o.sent[1].type = "HeaderListResponse"
                     /\ o.sent[1].headers = GetHeaders(l, MsgHeaderCountLimit)
                     /\ Len(o.sent[1].headers) <= MsgHeaderCountLimit
            /\ Len(l) = MsgMaxLocatorCount + 1 =>
                 \A f \in Faults :
                     LET o == HandleHeaderRequest(l, f)
                     IN  /\ o.res = "LocatorSizeExceeded"
                         /\ ScoreEvents(o.res) = <<AdjustPeerScore("LocatorSizeExceeded")>>
                         /\ StatusAfter(o.res) = "awaiting_ack"
                         /\ o.sent = <<>> /\ o.calls = {}

\* C23 witness: outside initial block download the chainstate holds as many
\* headers above genesis as a response may carry, and a locator of maximum
\* size is answered with all of them.
C23_Witness ==
    /\ status = "running" /\ ~ibd
    /\ \E l \in Locators :
         /\ Len(l) = MsgMaxLocatorCount
         /\ Len(HandleHeaderRequest(l, "none").sent) = 1
         /\ Len(HandleHeaderRequest(l, "none").sent[1].headers) = MsgHeaderCountLimit

\* The header lists of C24: connected, on top of a stored block or genesis,
\* every header already stored.
AllKnown(h) ==
    /\ \A i \in 1..(Len(h) - 1) : Prev(h[i + 1]) = h[i]
    /\ h # <<>> => Prev(h[1]) \in chain \cup {Genesis}
    /\ \A i \in 1..Len(h) : h[i] \in chain

\* What C24 says of a header list h handled with outcome o, collaborators
\* working.
FollowUpAsClaimed(h, o) ==
    /\ (AllKnown(h) /\ Len(h) = MsgHeaderCountLimit) =>
           /\ o.res = "Ok"
           /\ o.sent = <<HeaderListRequest(GetLocator(tip))>>
           /\ o.kh = known_headers /\ o.rb = requested_blocks
    /\ (AllKnown(h) /\ Len(h) < MsgHeaderCountLimit) =>
           /\ o.res = "Ok"
           /\ o.sent = <<>>
           /\ o.kh = known_headers /\ o.rb = requested_blocks
    /\ Len(h) > MsgHeaderCountLimit =>
           /\ o.res = "HeadersLimitExceeded"
           /\ ScoreEvents(o.res) = <<AdjustPeerScore("HeadersLimitExceeded")>>
           /\ o.sent = <<>>
           /\ o.kh = known_headers /\ o.rb = requested_blocks

C25_BuffersBounded ==
    Len(known_headers) + Cardinality(requested_blocks)
        <= MsgHeaderCountLimit + max_request_blocks_count

\* C26: in every reachable state of the session, requested_blocks and
\* blocks_queue (the blocks to send) share no block id, the chainstate
\* learning blocks from elsewhere meanwhile.
C26_RequestedAndQueuedDisjoint ==
    requested_blocks \cap Range(blocks_queue) = {}

\* What C27 says of the outcome o of a BlockResponse for a requested block
\* id that the chainstate already holds: success without a score, and the
\* follow-up of an accepted block.
StoredBlockAccepted(id, o) ==
    /\ o.res = "Ok" /\ ScoreEvents(o.res) = <<>> /\ StatusAfter(o.res) = "running"
    /\ o.ch = chain /\ o.tp = tip
    /\ o.rb \subseteq (requested_blocks \ {id}) \cup RequestedIn(o.sent)
    /\ IF requested_blocks \ {id} # {} THEN o.sent = <<>>
       ELSE IF known_headers = <<>> THEN o.sent = <<HeaderListRequest(GetLocator(tip))>>
       ELSE Len(o.sent) = 1 /\ o.sent[1].type = "BlockListRequest"

\* C27: a BlockResponse for a requested block that the chainstate already
\* holds is a success: no AdjustPeerScore, the follow-up of an accepted
\* block, and no BlockListRequest for that block id afterwards: none is
\* sent now, and the id is not among the headers kept for a later request.
C27_StoredBlockIsSuccess ==
    status = "running" =>
        \A id \in requested_blocks \cap chain :
            LET o == HandleBlockResponse(id, TRUE, "none")
            IN  /\ StoredBlockAccepted(id, o)
                /\ id \notin RequestedIn(o.sent)
                /\ id \notin Range(o.kh)

\* C28: score adjustment is fire-and-forget: while an AdjustPeerScore of the
\* session has not been acknowledged by the peer manager, the session is
\* not waiting for the acknowledgement but is in its loop, where it takes
\* its next event.
C28_ScoreIsFireAndForget ==
    (SessionPeer \in peers /\ score_event # <<>>) => status = "running"

IgnoredErrors == {"PeerDoesntExist", "MempoolFull", "TransactionAlreadyInMempool"}

\* C29: when the handling of an event fails with PeerDoesntExist (a message
\* could not be sent), MempoolFull or TransactionAlreadyInMempool, no
\* AdjustPeerScore is sent and the session goes round its loop with the
\* state the handler left; PeerDoesntExist as the answer to an
\* AdjustPeerScore lets the session go on as well.
C29_IgnoredErrors ==
    /\ status = "running" =>
         \A o \in EventOutcomes :
             o.res \in IgnoredErrors =>
                 /\ ScoreEvents(o.res) = <<>>
                 /\ StatusAfter(o.res) = "running"
    /\ status = "awaiting_ack" => AfterAck("PeerDoesntExist") = "running"

\* C29 witness: the session runs and can be handed a header response whose
\* BlockListRequest cannot be sent because the peer is gone, the headers
\* split off for later being kept; the mempool can refuse a transaction as
\* full or as already held.
C29_Witness ==
    /\ status = "running" /\ ~ibd
    /\ \E o \in EventOutcomes : o.res = "PeerDoesntExist" /\ o.kh # known_headers
    /\ \E o \in EventOutcomes : o.res = "MempoolFull"
    /\ \E o \in EventOutcomes : o.res = "TransactionAlreadyInMempool"

\* C30: a length-prefixed frame whose payload is exactly the maximum
\* message size is read successfully and its payload returned unchanged; a
\* frame whose payload is one byte longer is rejected with an InvalidData
\* error; so it is for read_request and for read_response, and neither
\* sends a score adjustment.
C30_FrameSizeLimit ==
    decoded.kind \in {"request", "response"} =>
        /\ Len(framed) = MessageMaxSize =>
               decoded.res = "Ok" /\ decoded.data = framed
        /\ Len(framed) = MessageMaxSize + 1 =>
               decoded.res = "InvalidData" /\ decoded.data = <<>>
        /\ score_event = <<>> /\ pm_channel = <<>>

\* C30 witness: a response of exactly the maximum size, not all of one
\* byte value, has been read.
C30_Witness ==
    /\ decoded.kind = "response"
    /\ Len(framed) = MessageMaxSize
    /\ decoded.res = "Ok"
    /\ \E i \in 1..Len(framed) : framed[i] # framed[1]

\* C31: an id leaves requested_blocks only when a BlockResponse carrying
\* that id is handled, or when the session ends: every other message and
\* announcement, whatever its result, and the sending of a block keep every
\* id of requested_blocks, a BlockResponse takes out its own id at most, and
\* requested_blocks is at every moment the ids requested and not received.
C31_NoRequestedBlockForgotten ==
    /\ status = "running" =>
         /\ \A o \in HeaderRequestOutcomes \cup BlockRequestOutcomes
                         \cup HeaderResponseOutcomes \cup BlockAnnouncementOutcomes
                         \cup TransactionAnnouncementOutcomes :
                requested_blocks \subseteq o.rb
         /\ \A id \in Blocks, body_ok \in BOOLEAN, f \in Faults :
                requested_blocks \ HandleBlockResponse(id, body_ok, f).rb \subseteq {id}
         /\ blocks_queue # <<>> =>
                \A f \in Faults : SendBlock(Head(blocks_queue), f).rb = requested_blocks
    /\ status \in {"running", "awaiting_ack"} => requested_blocks = asked

\* C31 witness: several blocks are requested, and a BlockResponse for one of
\* them takes out that one alone, whether the block is good or not.
C31_Witness ==
    /\ status = "running"
    /\ Cardinality(requested_blocks) >= 2
    /\ \E id \in requested_blocks :
         /\ HandleBlockResponse(id, TRUE, "none").rb = requested_blocks \ {id}
         /\ HandleBlockResponse(id, FALSE, "none").rb = requested_blocks \ {id}

\* C32: whenever the handling of a BlockResponse for a requested block
\* leaves requested_blocks empty and the session goes on (the block is
\* accepted, already stored, or scored for failing a check), the handler
\* has sent the follow-up request: a BlockListRequest for headers of
\* known_headers if there are any, else a HeaderListRequest with the
\* locator of the chainstate as it is then.
C32_FollowUpAfterLastBlock ==
    status = "running" =>
        \A id \in requested_blocks, body_ok \in BOOLEAN :
            LET o == HandleBlockResponse(id, body_ok, "none")
            IN  (requested_blocks = {id} /\ Classify(o.res) \in {"ok", "scored"})
                => /\ Len(o.sent) = 1
                   /\ IF known_headers # <<>>
                      THEN /\ o.sent[1].type = "BlockListRequest"
                           /\ Range(o.sent[1].ids) \subseteq Range(known_headers)
                      ELSE o.sent[1] = HeaderListRequest(GetLocator(o.tp))

\* C33: every call of request_blocks finds known_headers empty: the debug
\* assertion at its entry fails for no event the session can handle, after
\* any sequence of header responses, block responses and announcements.
C33_RequestBlocksAssertionHolds ==
    status = "running" => \A o \in EventOutcomes : ~o.af

\* C34: in every state of the session, headers held in known_headers come
\* with a batch of requested blocks still outstanding.
C34_KnownHeadersHaveBatchInFlight ==
    status \in {"running", "awaiting_ack"} =>
        (known_headers # <<>> => requested_blocks # {})

\* What the announcement of `header` must do by the four cases, tried in
\* order, when o is what the handler did: ignored without a chainstate call
\* while blocks are requested; ignored when the block is stored; a
\* HeaderListRequest and no block requested when the parent is unknown; else,
\* the header passing the check, request_blocks runs through and asks for
\* exactly this block.
AnnouncementAsClaimed(header, o) ==
    IF requested_blocks # {}
    THEN o.res = "Ok" /\ o.sent = <<>> /\ o.calls = {} /\ o.rb = requested_blocks
    ELSE IF BlockKnown(header)
    THEN o.res = "Ok" /\ o.sent = <<>> /\ o.rb = requested_blocks
    ELSE IF ~GenBlockKnown(Prev(header))
    THEN o.sent = <<HeaderListRequest(GetLocator(tip))>> /\ o.rb = requested_blocks
    ELSE HeaderCheckOk(header) =>
            /\ ~o.af
            /\ o.sent = <<BlockListRequest(<<header>>)>>
            /\ o.rb = requested_blocks \cup {header}

\* C35: a block announcement is handled by exactly one of four cases, in
\* this order: blocks requested -> ignored, no chainstate call; block known
\* -> ignored; parent unknown -> a HeaderListRequest, no block requested;
\* otherwise, the header check passing, a BlockListRequest for that one
\* block is sent and its id joins requested_blocks.
C35_AnnouncementCases ==
    status = "running" =>
        \A header \in Blocks :
            AnnouncementAsClaimed(header, HandleBlockAnnouncement(header, "none"))

\* The positions of a request whose id the chainstate does not hold or whose
\* block is not above best_known_block.
Offending(ids) ==
    {i \in 1..Len(ids) :
        ~BlockKnown(ids[i]) \/ Height(ids[i]) <= Unwrap(best_known_block, 0)}

\* The error of the first offending id.
FirstOffence(ids) ==
    LET i == CHOOSE k \in Offending(ids) : \A j \in Offending(ids) : k <= j
    IN  IF ~BlockKnown(ids[i]) THEN "UnknownBlockRequested" ELSE "DuplicatedBlockRequest"

\* o, what the session did with the request ids, scored it and queued
\* nothing.
ScoredAndNothingQueued(o) ==
    /\ Classify(o.res) = "scored"
    /\ o.bq = blocks_queue
    /\ o.bk = best_known_block

\* C36 as stated: a BlockListRequest that is empty or holds an unknown id or
\* an id not above best_known_block is scored and leaves blocks_queue and
\* best_known_block as they are, whatever its other ids; an accepted one
\* appends its ids to the back of blocks_queue in request order.
C36_AllOrNothing ==
    status = "running" =>
        \A ids \in BlockIdLists :
            LET o == HandleBlockRequest(ids, "none")
            IN  /\ (ids = <<>> \/ Offending(ids) # {}) => ScoredAndNothingQueued(o)
                /\ (ids # <<>> /\ Offending(ids) = {} /\ ~IsInitialBlockDownload
                        /\ Len(ids) + Len(blocks_queue) <= max_request_blocks_count)
                    => o.res = "Ok" /\ o.bq = blocks_queue \o ids

\* C36, amended: outside initial block download the validation is
\* all-or-nothing: an empty request is scored ZeroBlocksInRequest, a request
\* within the limit with an offending id is scored with the error of its
\* first offending id, a request over the limit is scored too, and none of
\* them changes blocks_queue or best_known_block; a request within the limit
\* without an offending id is appended to blocks_queue in request order.
\* During initial block download a non-empty request is ignored, whatever
\* its ids, and an empty one is scored.
C36_AllOrNothingOutsideIbd ==
    status = "running" =>
        \A ids \in BlockIdLists :
            LET o == HandleBlockRequest(ids, "none")
                fits == Len(ids) + Len(blocks_queue) <= max_request_blocks_count
            IN  /\ ids = <<>> => o.res = "ZeroBlocksInRequest" /\ ScoredAndNothingQueued(o)
                /\ (ids # <<>> /\ IsInitialBlockDownload) => o = Same("Ok", {})
                /\ (ids # <<>> /\ ~IsInitialBlockDownload) =>
                      /\ Offending(ids) # {} => ScoredAndNothingQueued(o)
                      /\ (Offending(ids) # {} /\ fits) => o.res = FirstOffence(ids)
                      /\ (Offending(ids) = {} /\ fits) =>
                            /\ o.res = "Ok"
                            /\ o.bq = blocks_queue \o ids
                            /\ o.bk = best_known_block

\* C36 witness: outside initial block download a request of two ids whose
\* first is valid and whose second is unknown is scored
\* UnknownBlockRequested, and a request of two valid ids is queued in request
\* order.
C36_Witness ==
    /\ status = "running"
    /\ ~IsInitialBlockDownload
    /\ \E ids \in BlockIdLists :
         /\ Len(ids) = 2 /\ Offending(ids) = {2} /\ ~BlockKnown(ids[2])
         /\ HandleBlockRequest(ids, "none").res = "UnknownBlockRequested"
    /\ \E ids \in BlockIdLists :
         /\ Len(ids) = 2 /\ Offending(ids) = {} /\ ids[1] # ids[2]
         /\ HandleBlockRequest(ids, "none").bq = ids

\* C37: in every state of the session blocks_queue holds at most
\* max_request_blocks_count ids, however the peer's BlockListRequests and
\* the session's block sends interleave.
C37_ServeQueueBounded ==
    Len(blocks_queue) <= max_request_blocks_count

\* C37 witness: after a block was sent the queue is full again, and a
\* request for one more block is refused.
C37_Witness ==
    /\ status = "running"
    /\ ~IsInitialBlockDownload
    /\ Len(blocks_queue) = max_request_blocks_count
    /\ \E b \in Blocks : served[b] > 0
    /\ \E ids \in BlockIdLists :
         /\ Len(ids) = 1 /\ Offending(ids) = {}
         /\ HandleBlockRequest(ids, "none").res = "BlocksRequestLimitExceeded"

\* C38: within one session no block is served twice: blocks_queue never
\* holds the same id at two places, and no id is sent to the peer in more
\* than one BlockResponse.
C38_NoBlockServedTwice ==
    /\ \A i, j \in 1..Len(blocks_queue) : i # j => blocks_queue[i] # blocks_queue[j]
    /\ \A b \in Blocks : served[b] <= 1

\* A step that changes blocks_queue or the blocks sent: a request is
\* appended at the back, or the front id is popped and exactly that block is
\* sent, or the session ends and drops the queue.
ServeStep ==
    (blocks_queue' # blocks_queue \/ served' # served) =>
        \/ /\ \E ids \in BlockIdLists : blocks_queue' = blocks_queue \o ids
           /\ served' = served
        \/ /\ blocks_queue # <<>>
           /\ blocks_queue' = Tail(blocks_queue)
           /\ served' = [served EXCEPT ![Head(blocks_queue)] = IF @ < 2 THEN @ + 1 ELSE 2]
        \/ /\ status' = "terminated"
           /\ blocks_queue' = <<>>
           /\ served' = served

C40_UnexpectedHeadersFirst ==
    (status = "running" /\ known_headers # <<>>) =>
        \A headers \in HeaderLists, f \in Faults :
            LET o == HandleHeaderResponse(headers, f)
            IN  /\ o.res = "UnexpectedMessage:headers response"
                /\ ScoreEvents(o.res) = <<AdjustPeerScore(o.res)>>
                /\ StatusAfter(o.res) = "awaiting_ack"
                /\ o.calls = {}
                /\ o.sent = <<>>
                /\ o.kh = known_headers
                /\ o.rb = requested_blocks

\* C40 witness: headers are held, blocks are requested, and the response
\* that is refused as unexpected is one that has too many headers, and
\* another that is empty.
C40_Witness ==
    /\ status = "running"
    /\ known_headers # <<>>
    /\ requested_blocks # {}
    /\ \E headers \in HeaderLists :
         /\ Len(headers) > MsgHeaderCountLimit
         /\ HandleHeaderResponse(headers, "none").res = "UnexpectedMessage:headers response"
    /\ HandleHeaderResponse(<<>>, "none").res = "UnexpectedMessage:headers response"

====
